---- MODULE Spec2Model ----
(***************************************************************************)
(* typed-oid: object identifiers of the form PREFIX-VALUE, where VALUE is  *)
(* the base32hex (no padding) encoding of the 16 raw bytes of a UUID.      *)
(*                                                                         *)
(* Text (&str) and byte slices (&[u8]) are sequences of byte values        *)
(* 0..255; a UUID is a sequence of 16 bytes.  Every library function is an *)
(* operator computing what the code computes; the state machine below is a *)
(* client calling the public operations one after another, the state being *)
(* the last call (op, arg) and what it returned (ret).                     *)
(***************************************************************************)
EXTENDS Integers, Sequences, FiniteSets

(***************************************************************************)
(* Results: Result<T, Error> and a panic (unwrap / expect on a failure).   *)
(***************************************************************************)
Ok(v) == [tag |-> "Ok", val |-> v]
Err(e) == [tag |-> "Err", err |-> e]
Panic(m) == [tag |-> "Panic", msg |-> m]

\* error.rs: enum Error
PrefixByteLength == [kind |-> "PrefixByteLength"]
InvalidPrefix(i) == [kind |-> "InvalidPrefix", valid_until |-> i]
MissingPrefix == [kind |-> "MissingPrefix"]
MissingSeparator == [kind |-> "MissingSeparator"]
MissingValue == [kind |-> "MissingValue"]
UuidError(c) == [kind |-> "Uuid", cause |-> c]
Base32Decode(c) == [kind |-> "Base32Decode", cause |-> c]

(***************************************************************************)
(* Small helpers on sequences.                                             *)
(***************************************************************************)
\* The length at which zip() of two iterators stops.
Min(a, b) == IF a < b THEN a ELSE b

\* 1 << n
Pow2(n) == 2 ^ n

(***************************************************************************)
(* prefix.rs                                                               *)
(***************************************************************************)
\* Faulty variant: '[' passes.
valid_prefix_char_off_by_one(c) ==
  (c > 47 /\ c < 58) \/ (c > 96 /\ c < 123) \/ (c > 64 /\ c <= 91)

\* (c > b'/' && c < b':') || (c > b'`' && c < b'{') || (c > b'@' && c < b'[')
valid_prefix_char(c) ==
  (c > 47 /\ c < 58) \/ (c > 96 /\ c < 123) \/ (c > 64 /\ c < 91)

\* slice.iter().all(|&c| valid_prefix_char(c))
AllValid(slice) == \A i \in 1..Len(slice) : valid_prefix_char(slice[i])

\* slice.iter().enumerate().find(|(_i, &c)| !valid_prefix_char(c)).map(|(i, _)| i)
\* .unwrap(), reached only when some byte is invalid: the 0-based index of
\* the first one.
FirstInvalid(slice) ==
  (CHOOSE i \in 1..Len(slice) :
     /\ ~valid_prefix_char(slice[i])
     /\ \A j \in 1..(i - 1) : valid_prefix_char(slice[j])) - 1

\* struct Prefix { bytes: SmallVec<[u8; 8]> }: the bytes, inline or spilled.
Prefix_from_slice_unchecked(slice) == [bytes |-> slice]

\* Faulty variant: valid_until is the index of the last invalid byte.
Prefix_from_slice_last_invalid(slice) ==
  IF ~AllValid(slice)
    THEN Err(InvalidPrefix(
           (CHOOSE i \in 1..Len(slice) :
              /\ ~valid_prefix_char(slice[i])
              /\ \A j \in (i + 1)..Len(slice) : valid_prefix_char(slice[j])) - 1))
    ELSE Ok(Prefix_from_slice_unchecked(slice))

\* Prefix::from_slice(slice)
Prefix_from_slice(slice) ==
  IF ~AllValid(slice)
    THEN Err(InvalidPrefix(FirstInvalid(slice)))
    ELSE Ok(Prefix_from_slice_unchecked(slice))

\* Faulty variant: letters are compared without their case.
Prefix_eq_ignore_case(a, b) ==
  /\ Len(a.bytes) = Len(b.bytes)
  /\ \A i \in 1..Len(a.bytes) :
       (IF a.bytes[i] \in 65..90 THEN a.bytes[i] + 32 ELSE a.bytes[i])
         = (IF b.bytes[i] \in 65..90 THEN b.bytes[i] + 32 ELSE b.bytes[i])

\* #[derive(PartialEq, Eq)] on Prefix: equality of the one field, the
\* SmallVec, which compares the two byte slices.
Prefix_eq(a, b) == a.bytes = b.bytes

\* impl FromStr for Prefix, TryFrom<&[u8]>, TryFrom<&str>
Prefix_from_str(s) == Prefix_from_slice(s)

Prefix_try_from_slice(slice) == Prefix_from_slice(slice)

Prefix_try_from_str(s) == Prefix_from_str(s)

(***************************************************************************)
(* data_encoding::BASE32HEX_NOPAD (RFC 4648 base32hex, most significant    *)
(* bit first, no padding, trailing bits checked) as used by uuid.rs and by *)
(* value().                                                                *)
(***************************************************************************)
\* The symbol of a 5-bit value: 0-9 then A-V.
B32Symbol(v) == IF v < 10 THEN 48 + v ELSE 55 + v

\* The 5-bit value of a symbol, -1 for a byte outside 0-9A-V.
B32Value(c) ==
  IF c >= 48 /\ c <= 57 THEN c - 48
  ELSE IF c >= 65 /\ c <= 86 THEN c - 55
  ELSE -1

ByteAt(bytes, i) == IF i + 1 <= Len(bytes) THEN bytes[i + 1] ELSE 0

\* Faulty variant: the last symbol is padded on the wrong side.
B32Encode_lsb_pad(bytes) ==
  [k \in 1..((8 * Len(bytes) + 4) \div 5) |->
     LET bit == 5 * (k - 1)
         w   == ByteAt(bytes, bit \div 8) * 256 + ByteAt(bytes, bit \div 8 + 1)
         v   == (w \div Pow2(11 - (bit % 8))) % 32
     IN  IF 5 * k > 8 * Len(bytes)
           THEN B32Symbol(v \div Pow2(5 * k - 8 * Len(bytes)))
           ELSE B32Symbol(v)]

\* BASE32HEX_NOPAD.encode(bytes): ceil(8n/5) symbols, the last one padded
\* with zero bits.
B32Encode(bytes) ==
  [k \in 1..((8 * Len(bytes) + 4) \div 5) |->
     LET bit == 5 * (k - 1)
         w   == ByteAt(bytes, bit \div 8) * 256 + ByteAt(bytes, bit \div 8 + 1)
     IN  B32Symbol((w \div Pow2(11 - (bit % 8))) % 32)]

HasBadSymbol(s) == \E i \in 1..Len(s) : B32Value(s[i]) < 0

ValueAt(s, i) == IF i + 1 <= Len(s) THEN B32Value(s[i + 1]) ELSE 0

\* The bytes of a symbol sequence whose length and symbols are valid.
B32Bytes(s) ==
  [j \in 1..((5 * Len(s)) \div 8) |->
     LET bit == 8 * (j - 1)
         k   == bit \div 5
         w   == ValueAt(s, k) * 1024 + ValueAt(s, k + 1) * 32 + ValueAt(s, k + 2)
     IN  (w \div Pow2(7 - (bit % 5))) % 256]

\* Faulty variant: trailing bits are not checked.
B32Decode_no_trailing_check(s) ==
  IF (5 * Len(s)) % 8 >= 5 THEN Err("Length")
  ELSE IF HasBadSymbol(s) THEN Err("Symbol")
  ELSE Ok(B32Bytes(s))

\* BASE32HEX_NOPAD.decode(s): Result<Vec<u8>, DecodeError>.  The length is
\* checked first (decode_len), then the symbols, then the trailing bits of
\* the last symbol, which must be zero.
B32Decode(s) ==
  IF (5 * Len(s)) % 8 >= 5 THEN Err("Length")
  ELSE IF HasBadSymbol(s) THEN Err("Symbol")
  ELSE IF Len(s) > 0 /\ B32Value(s[Len(s)]) % Pow2((5 * Len(s)) % 8) # 0
    THEN Err("Trailing")
  ELSE Ok(B32Bytes(s))

(***************************************************************************)
(* uuid::Uuid as used by the crate.                                        *)
(***************************************************************************)
\* Uuid::from_slice(b): the 16 bytes, or uuid::Error for another length.
Uuid_from_slice(b) == IF Len(b) # 16 THEN Err("ByteLength") ELSE Ok(b)

\* The value of a hexadecimal digit (either case), -1 otherwise.
HexValue(c) ==
  IF c >= 48 /\ c <= 57 THEN c - 48
  ELSE IF c >= 65 /\ c <= 70 THEN c - 55
  ELSE IF c >= 97 /\ c <= 102 THEN c - 87
  ELSE -1

HexDigit(v) == IF v < 10 THEN 48 + v ELSE 87 + v

\* 32 hexadecimal digits to 16 bytes.
ParseSimple(s) ==
  IF Len(s) # 32 \/ (\E i \in 1..Len(s) : HexValue(s[i]) < 0) THEN Err("InvalidUuid")
  ELSE Ok([j \in 1..16 |-> HexValue(s[2 * j - 1]) * 16 + HexValue(s[2 * j])])

\* 8-4-4-4-12 hexadecimal digits separated by '-'.
ParseHyphenated(s) ==
  IF Len(s) # 36 THEN Err("InvalidUuid")
  ELSE IF \E i \in {9, 14, 19, 24} : s[i] # 45 THEN Err("InvalidUuid")
  ELSE ParseSimple(SubSeq(s, 1, 8) \o SubSeq(s, 10, 13) \o SubSeq(s, 15, 18)
                   \o SubSeq(s, 20, 23) \o SubSeq(s, 25, 36))

UrnPrefix == <<117, 114, 110, 58, 117, 117, 105, 100, 58>>

\* Uuid::try_from(&str) = Uuid::parse_str: simple, hyphenated, braced or URN.
Uuid_parse_str(s) ==
  IF Len(s) = 32 THEN ParseSimple(s)
  ELSE IF Len(s) = 36 THEN ParseHyphenated(s)
  ELSE IF Len(s) = 38 /\ s[1] = 123 /\ s[38] = 125 THEN ParseHyphenated(SubSeq(s, 2, 37))
  ELSE IF Len(s) = 45 /\ SubSeq(s, 1, 9) = UrnPrefix THEN ParseHyphenated(SubSeq(s, 10, 45))
  ELSE Err("InvalidUuid")

\* Display for Uuid: lower-case hyphenated.
Uuid_to_string(u) ==
  LET hex == [i \in 1..32 |->
                HexDigit(IF i % 2 = 1 THEN u[(i + 1) \div 2] \div 16
                                      ELSE u[i \div 2] % 16)]
  IN  SubSeq(hex, 1, 8) \o <<45>> \o SubSeq(hex, 9, 12) \o <<45>>
      \o SubSeq(hex, 13, 16) \o <<45>> \o SubSeq(hex, 17, 20) \o <<45>>
      \o SubSeq(hex, 21, 32)

(***************************************************************************)
(* uuid.rs                                                                 *)
(***************************************************************************)
\* Faulty variant: the empty text is not told apart.
uuid_from_str_b32h_no_empty_check(s) ==
  LET d == B32Decode(s)
  IN  IF d.tag = "Err" THEN Err(Base32Decode(d.err))
      ELSE LET u == Uuid_from_slice(d.val)
           IN  IF u.tag = "Err" THEN Err(UuidError(u.err)) ELSE Ok(u.val)

\* Faulty variant: a wrong byte count is reported as a decode error.
uuid_from_str_b32h_one_channel(s) ==
  IF Len(s) = 0 THEN Err(MissingValue)
  ELSE LET d == B32Decode(s)
       IN  IF d.tag = "Err" THEN Err(Base32Decode(d.err))
           ELSE LET u == Uuid_from_slice(d.val)
                IN  IF u.tag = "Err" THEN Err(Base32Decode(u.err)) ELSE Ok(u.val)

\* uuid_from_str_b32h(s): `?` wraps DecodeError as Error::Base32Decode and
\* uuid::Error as Error::Uuid (#[from]).
uuid_from_str_b32h(s) ==
  IF Len(s) = 0 THEN Err(MissingValue)
  ELSE LET d == B32Decode(s)
       IN  IF d.tag = "Err" THEN Err(Base32Decode(d.err))
           ELSE LET u == Uuid_from_slice(d.val)
                IN  IF u.tag = "Err" THEN Err(UuidError(u.err)) ELSE Ok(u.val)

(***************************************************************************)
(* str::split_once('-')                                                    *)
(***************************************************************************)
IsDash(c) == c = 45

HasSeparator(s) == \E i \in 1..Len(s) : IsDash(s[i])

\* The 0-based index of the first '-'.
FirstDash(s) ==
  (CHOOSE i \in 1..Len(s) : IsDash(s[i]) /\ \A j \in 1..(i - 1) : ~IsDash(s[j])) - 1

\* Faulty variant: splits at the last '-'.
SplitLast_pfx(s) ==
  SubSeq(s, 1, (CHOOSE i \in 1..Len(s) :
                  IsDash(s[i]) /\ \A j \in (i + 1)..Len(s) : ~IsDash(s[j])) - 1)

\* The text before and after the first '-' (when there is one).
SplitOnce_pfx(s) == SubSeq(s, 1, FirstDash(s))

SplitOnce_val(s) == SubSeq(s, FirstDash(s) + 2, Len(s))

(***************************************************************************)
(* oidstr.rs: struct OidStr { prefix: Prefix, uuid: Uuid }                 *)
(***************************************************************************)
\* OidStr::with_uuid(prefix, uuid), prefix: TryInto<Prefix> (a &str or a
\* &[u8]: both go through Prefix::from_slice).
OidStr_with_uuid(prefix, uuid) ==
  LET p == Prefix_try_from_str(prefix)
  IN  IF p.tag = "Err" THEN p ELSE Ok([prefix |-> p.val, uuid |-> uuid])

\* OidStr::with_uuid<P>(prefix: P, uuid) where P: TryInto<Prefix, Error =
\* Error>, for a type P of the caller: conv is what its prefix.try_into()
\* returns, an Error or a Prefix the caller's conversion obtained from the
\* public interface.
OidStr_with_uuid_into(conv, uuid) ==
  IF conv.tag = "Err" THEN conv ELSE Ok([prefix |-> conv.val, uuid |-> uuid])

\* OidStr::try_with_uuid(prefix, uuid: &str): the argument expression
\* uuid.try_into()? is evaluated before with_uuid is entered.
OidStr_try_with_uuid(prefix, text) ==
  LET u == Uuid_parse_str(text)
  IN  IF u.tag = "Err" THEN Err(UuidError(u.err)) ELSE OidStr_with_uuid(prefix, u.val)

\* Faulty variant: the prefix is converted before the value is decoded.
OidStr_try_with_uuid_base32_prefix_first(prefix, b32) ==
  LET p == Prefix_try_from_str(prefix)
      u == uuid_from_str_b32h(b32)
  IN  IF p.tag = "Err" THEN p
      ELSE IF u.tag = "Err" THEN u
      ELSE Ok([prefix |-> p.val, uuid |-> u.val])

\* OidStr::try_with_uuid_base32(prefix, base32_uuid): the argument expression
\* uuid_from_str_b32h(..)? is evaluated before with_uuid is entered.
OidStr_try_with_uuid_base32(prefix, b32) ==
  LET u == uuid_from_str_b32h(b32)
  IN  IF u.tag = "Err" THEN u ELSE OidStr_with_uuid(prefix, u.val)

\* #[derive(PartialEq, Eq)] on OidStr: the fields in order, prefix == prefix
\* && uuid == uuid (Uuid compares its 16 bytes).
OidStr_eq(a, b) == Prefix_eq(a.prefix, b.prefix) /\ a.uuid = b.uuid

\* OidStr::value(): BASE32HEX_NOPAD.encode(self.uuid.as_bytes())
OidStr_value(o) == B32Encode(o.uuid)

\* impl Display for Prefix: the bytes as text.  from_utf8_unchecked on
\* bytes that are not UTF-8 is undefined behaviour: any outcome.
IsUtf8(bytes) == \A i \in 1..Len(bytes) : bytes[i] < 128

Prefix_fmt_outcomes(p) ==
  IF IsUtf8(p.bytes) THEN {Ok(p.bytes)}
  ELSE {Ok(p.bytes), Ok(<<>>), Panic("undefined behaviour")}

\* Display for OidStr writes the prefix through Display for Prefix: the
\* text, or any outcome when the prefix bytes are not UTF-8.
OidStr_fmt_outcomes(o) ==
  {IF r.tag = "Ok" THEN Ok(r.val \o <<45>> \o OidStr_value(o)) ELSE r :
     r \in Prefix_fmt_outcomes(o.prefix)}

\* Faulty variant: no separator is written.
OidStr_fmt_no_separator(o) == o.prefix.bytes \o OidStr_value(o)

\* impl Display for OidStr: "{}-{}", self.prefix, self.value()
OidStr_fmt(o) == o.prefix.bytes \o <<45>> \o OidStr_value(o)

\* Faulty variant: the value segment is decoded before the prefix is checked.
OidStr_from_str_value_first(s) ==
  IF HasSeparator(s)
    THEN LET pfx == SplitOnce_pfx(s)
             val == SplitOnce_val(s)
             p   == Prefix_from_str(pfx)
             u   == uuid_from_str_b32h(val)
         IN  IF Len(pfx) = 0 THEN Err(MissingPrefix)
             ELSE IF u.tag = "Err" THEN u
             ELSE IF p.tag = "Err" THEN p
             ELSE Ok([prefix |-> p.val, uuid |-> u.val])
    ELSE Err(MissingSeparator)

\* Faulty variant: the tag is compared with a fixed one, as typed parsing
\* does, so another valid tag is reported as InvalidPrefix.
OidStr_from_str_fixed_tag(s) ==
  IF HasSeparator(s)
    THEN LET pfx == SplitOnce_pfx(s)
             val == SplitOnce_val(s)
             p   == Prefix_from_str(pfx)
             u   == uuid_from_str_b32h(val)
         IN  IF Len(pfx) = 0 THEN Err(MissingPrefix)
             ELSE IF p.tag = "Err" THEN p
             ELSE IF pfx # <<69, 88, 65>> THEN Err(InvalidPrefix(0))
             ELSE IF u.tag = "Err" THEN u
             ELSE Ok([prefix |-> p.val, uuid |-> u.val])
    ELSE Err(MissingSeparator)

\* impl FromStr for OidStr: the fields are evaluated in the order written,
\* pfx.parse()? before uuid_from_str_b32h(val)?.
OidStr_from_str(s) ==
  IF HasSeparator(s)
    THEN LET pfx == SplitOnce_pfx(s)
             val == SplitOnce_val(s)
             p   == Prefix_from_str(pfx)
             u   == uuid_from_str_b32h(val)
         IN  IF Len(pfx) = 0 THEN Err(MissingPrefix)
             ELSE IF p.tag = "Err" THEN p
             ELSE IF u.tag = "Err" THEN u
             ELSE Ok([prefix |-> p.val, uuid |-> u.val])
    ELSE Err(MissingSeparator)

(***************************************************************************)
(* lib.rs: trait OidPrefix.  A marker type P is what it declares: its      *)
(* prefix() string and the set of strings its str_partial_eq accepts       *)
(* (the default implementation accepts exactly prefix()).                  *)
(***************************************************************************)
Marker(prefix, loose) == [prefix |-> prefix, loose |-> loose]

DefaultMarker(prefix) == Marker(prefix, {prefix})

str_partial_eq(P, s) == s \in P.loose

(***************************************************************************)
(* oid.rs: struct Oid<P> { uuid: Uuid, _prefix: PhantomData }              *)
(***************************************************************************)
\* Oid::with_uuid(uuid)
Oid_with_uuid(uuid) == [uuid |-> uuid]

\* Oid::try_with_uuid(uuid: &str)
Oid_try_with_uuid(text) ==
  LET u == Uuid_parse_str(text)
  IN  IF u.tag = "Err" THEN Err(UuidError(u.err)) ELSE Ok(Oid_with_uuid(u.val))

\* Oid::try_with_uuid_base32(base32_uuid)
Oid_try_with_uuid_base32(b32) ==
  LET u == uuid_from_str_b32h(b32)
  IN  IF u.tag = "Err" THEN u ELSE Ok(Oid_with_uuid(u.val))

\* Oid::prefix(): Prefix::from_str(P::prefix()).expect("Invalid Prefix")
Oid_prefix(P) ==
  LET p == Prefix_from_str(P.prefix)
  IN  IF p.tag = "Err" THEN Panic("Invalid Prefix") ELSE Ok(p.val)

\* Oid::value()
Oid_value(o) == B32Encode(o.uuid)

\* Faulty variant: no separator is written.
Oid_fmt_no_separator(P, o) == P.prefix \o Oid_value(o)

\* impl Display for Oid<P>: "{}-{}", P::prefix(), self.value()
Oid_fmt(P, o) == P.prefix \o <<45>> \o Oid_value(o)

\* pfx.chars().zip(P::prefix().chars()).enumerate().find(|(_, (c1, c2))| c1 != c2)
\* .map(|(i, _)| i): Some(i) as Ok(i), None as Err("None").  zip stops at
\* the shorter of the two.
ZipFindDiverge(a, b) ==
  LET n == Min(Len(a), Len(b))
  IN  IF \E i \in 1..n : a[i] # b[i]
        THEN Ok((CHOOSE i \in 1..n : a[i] # b[i] /\ \A j \in 1..(i - 1) : a[j] = b[j]) - 1)
        ELSE Err("None")

\* Faulty variant: only str_partial_eq decides, so an override that rejects
\* the canonical prefix rejects it.
Oid_from_str_loose_only(P, s) ==
  IF HasSeparator(s)
    THEN LET pfx == SplitOnce_pfx(s)
             val == SplitOnce_val(s)
             d   == ZipFindDiverge(pfx, P.prefix)
             u   == uuid_from_str_b32h(val)
         IN  IF Len(pfx) = 0 THEN Err(MissingPrefix)
             ELSE IF ~str_partial_eq(P, pfx)
               THEN IF d.tag = "Err" THEN Panic("unwrap on None")
                    ELSE Err(InvalidPrefix(d.val))
             ELSE IF u.tag = "Err" THEN u
             ELSE Ok([uuid |-> u.val])
    ELSE Err(MissingSeparator)

\* Faulty variant: an empty prefix segment is not told apart.
Oid_from_str_no_empty_check(P, s) ==
  IF HasSeparator(s)
    THEN LET pfx == SplitOnce_pfx(s)
             val == SplitOnce_val(s)
             d   == ZipFindDiverge(pfx, P.prefix)
             u   == uuid_from_str_b32h(val)
         IN  IF pfx # P.prefix /\ ~str_partial_eq(P, pfx)
               THEN IF d.tag = "Err" THEN Panic("unwrap on None")
                    ELSE Err(InvalidPrefix(d.val))
             ELSE IF u.tag = "Err" THEN u
             ELSE Ok([uuid |-> u.val])
    ELSE Err(MissingSeparator)

\* impl FromStr for Oid<P>
Oid_from_str(P, s) ==
  IF HasSeparator(s)
    THEN LET pfx == SplitOnce_pfx(s)
             val == SplitOnce_val(s)
             d   == ZipFindDiverge(pfx, P.prefix)
             u   == uuid_from_str_b32h(val)
         IN  IF Len(pfx) = 0 THEN Err(MissingPrefix)
             ELSE IF pfx # P.prefix /\ ~str_partial_eq(P, pfx)
               THEN IF d.tag = "Err" THEN Panic("unwrap on None")
                    ELSE Err(InvalidPrefix(d.val))
             ELSE IF u.tag = "Err" THEN u
             ELSE Ok([uuid |-> u.val])
    ELSE Err(MissingSeparator)

\* impl TryFrom<Thing> for Oid<P> (feature surrealdb): thing.tb is the table
\* name, thing.id.to_raw() the id text.
Oid_try_from_thing(P, tb, id) ==
  LET d == ZipFindDiverge(tb, P.prefix)
      a == Oid_try_with_uuid(id)
  IN  IF ~str_partial_eq(P, tb)
        THEN IF d.tag = "Err" THEN Panic("unwrap on None")
             ELSE Err(InvalidPrefix(d.val))
      ELSE IF a.tag = "Ok" THEN a
      ELSE Oid_try_with_uuid_base32(id)

(***************************************************************************)
(* The inputs a client passes.                                             *)
(***************************************************************************)
\* Bounds of the model.
MaxSliceLen == 2
MaxPfxLen == 4
NumUuids == 6
MaxExtra == 2

SeqsUpTo(S, n) == UNION {[1..k -> S] : k \in 0..n}

\* Byte slices for Prefix construction: the bytes at and next to the edges
\* of 0-9, A-Z, a-z, and a byte that is not ASCII.
EdgeBytes == {47, 48, 57, 58, 64, 65, 90, 91, 96, 97, 122, 123, 255}

Slices == SeqsUpTo(EdgeBytes, MaxSliceLen)

Strs == {s \in Slices : IsUtf8(s)}

\* Prefix segments of texts: over E, X, A and the invalid '['.
PfxBytes == {69, 88, 65, 91}

PfxSegs == SeqsUpTo(PfxBytes, MaxPfxLen)

EXA == <<69, 88, 65>>

\* A few prefix segments: empty, valid, invalid.
CorePfx == {<<>>, EXA, <<69, 91>>}

\* Prefix arguments of the fallible constructors: those, and prefixes with
\* a '-' first, after a valid byte, before and after an invalid byte.
CtorPfx ==
  CorePfx \cup {<<45>>, <<69, 45>>, <<69, 45, 91>>, <<91, 45>>}

\* The tags of the oidstr.rs tests: "TST", "Tst", "TestingTesting" (longer
\* than the 8 inline bytes), and "tst", "0z" for the other byte ranges.
TST == <<84, 83, 84>>

TagPfx ==
  {TST, <<116, 115, 116>>, <<84, 115, 116>>, <<48, 122>>,
   <<84, 101, 115, 116, 105, 110, 103, 84, 101, 115, 116, 105, 110, 103>>}

\* UUIDs: 2428f867-7fbb-49ae-8f2d-da4196d1e636 (examples/oid.rs),
\* 063dc3a0-3925-7c7f-8000-ca84a12ee183 (oid.rs tests), nil, max, and
\* generated byte patterns after these.
SampleUuid(k) ==
  IF k = 1 THEN <<36, 40, 248, 103, 127, 187, 73, 174, 143, 45, 218, 65, 150, 209, 230, 54>>
  ELSE IF k = 2 THEN <<6, 61, 195, 160, 57, 37, 124, 127, 128, 0, 202, 132, 161, 46, 225, 131>>
  ELSE IF k = 3 THEN [i \in 1..16 |-> 0]
  ELSE IF k = 4 THEN [i \in 1..16 |-> 255]
  ELSE [i \in 1..16 |-> (k * 89 + i * i * 7 + i * k * 31) % 256]

Uuids == {SampleUuid(k) : k \in 1..NumUuids}

\* The UUIDs given with a prefix converted by a type of the caller.
IntoUuids == {SampleUuid(1), SampleUuid(2)}

\* Value segments: the encoding of a UUID, cut short, extended, with one
\* symbol replaced, and with nonzero trailing bits.
BadSymbols == {38, 87, 97, 45, 61}

Replace(s, i, c) == [s EXCEPT ![i] = c]

Zeros(n) == [i \in 1..n |-> 48]

ValSegsOf(u) ==
  LET e == B32Encode(u)
  IN  {SubSeq(e, 1, n) : n \in 0..Len(e)}
      \cup {e \o Zeros(n) : n \in 1..MaxExtra}
      \cup {Replace(e, i, c) : i \in {1, 13, Len(e)}, c \in BadSymbols}
      \cup {Replace(e, Len(e), 49)}

ValSegs == UNION {ValSegsOf(u) : u \in Uuids}

\* The prefixes of the identifiers an identifier is compared with.
EqPfx == {TST, <<116, 115, 116>>, EXA}

\* Value segments holding a second '-': alone, before, inside (as in
\* str_to_oid_err_two_sep) and after an encoding.
DashVals ==
  LET e == B32Encode(SampleUuid(1))
  IN  {<<45>>, <<45>> \o e, SubSeq(e, 1, 9) \o <<45>> \o SubSeq(e, 10, 26),
       e \o <<45>>}

CoreVals ==
  LET e == B32Encode(SampleUuid(1))
  IN  {e, <<>>, SubSeq(e, 1, 24), Replace(e, 1, 38)} \cup DashVals

\* Texts to parse: with a separator (any prefix segment with a few values,
\* a few prefix segments with any value) and without one.
Texts ==
  {p \o <<45>> \o v : p \in PfxSegs, v \in CoreVals}
  \cup {p \o <<45>> \o v : p \in CorePfx, v \in ValSegs}
  \cup {p \o <<45>> \o v : p \in TagPfx, v \in CoreVals}
  \cup {p \o v : p \in CorePfx, v \in CoreVals}

\* Texts given as a UUID in standard form.
UuidTexts ==
  LET h == Uuid_to_string(SampleUuid(1))
  IN  {h, <<>>, SubSeq(h, 1, 35), Replace(h, 9, 48), Replace(h, 1, 103),
       <<123>> \o h \o <<125>>, UrnPrefix \o h,
       SubSeq(h, 1, 8) \o SubSeq(h, 10, 13) \o SubSeq(h, 15, 18)
         \o SubSeq(h, 20, 23) \o SubSeq(h, 25, 36)}

\* The marker types the client declares: EXA with the default
\* str_partial_eq; EXA with a str_partial_eq that accepts "XE" and "E" (and
\* not "EXA"); X; one whose declared prefix is empty; one whose declared
\* prefix "E[" is invalid.
MarkerList ==
  <<DefaultMarker(EXA),
    Marker(EXA, {<<88, 69>>, <<69>>}),
    DefaultMarker(<<88>>),
    DefaultMarker(<<>>),
    DefaultMarker(<<69, 91>>)>>

MarkerIds == 1..Len(MarkerList)

Markers == {MarkerList[i] : i \in MarkerIds}

\* Ids of a table-name + id record.
ThingIds ==
  {Uuid_to_string(SampleUuid(1)), B32Encode(SampleUuid(1)), <<>>, <<48>>}

(***************************************************************************)
(* The client.  op is the operation last called, arg its arguments and ret *)
(* what it returned: Ok(v) (a plain return value v is recorded as Ok(v)),  *)
(* Err(e) or a panic.  A first call takes its arguments from the input     *)
(* sets; a method call (&self) or a call on a rendered text follows the    *)
(* call that returned the value.                                           *)
(***************************************************************************)
VARIABLES op, arg, ret

vars == <<op, arg, ret>>

Init ==
  /\ op = "init"
  /\ arg = [none |-> TRUE]
  /\ ret = [tag |-> "None"]

Fresh == op = "init"

Returned(ops) == op \in ops /\ ret.tag = "Ok"

Call(o, a, r) ==
  /\ op' = o
  /\ arg' = a
  /\ ret' = r

\* The calls that return a Prefix, an OidStr, an Oid<P>.
PrefixMakers ==
  {"Prefix_from_slice", "Prefix_try_from_slice", "Prefix_from_str",
   "Prefix_try_from_str", "Prefix_from_slice_unchecked", "OidStr_prefix",
   "Oid_prefix"}

OidStrMakers ==
  {"OidStr_new", "OidStr_with_uuid", "OidStr_with_uuid_into",
   "OidStr_try_with_uuid", "OidStr_try_with_uuid_base32", "OidStr_from_str"}

OidMakers ==
  {"Oid_new", "Oid_with_uuid", "Oid_try_with_uuid", "Oid_try_with_uuid_base32",
   "Oid_from_str", "Oid_try_from_thing"}

------------------------------------------------------------------------------
\* Prefix

Call_Prefix_from_slice ==
  /\ Fresh
  /\ \E s \in Slices : Call("Prefix_from_slice", [slice |-> s], Prefix_from_slice(s))

Call_Prefix_try_from_slice ==
  /\ Fresh
  /\ \E s \in Slices :
       Call("Prefix_try_from_slice", [slice |-> s], Prefix_try_from_slice(s))

Call_Prefix_from_str ==
  /\ Fresh
  /\ \E s \in Strs : Call("Prefix_from_str", [slice |-> s], Prefix_from_str(s))

Call_Prefix_try_from_str ==
  /\ Fresh
  /\ \E s \in Strs : Call("Prefix_try_from_str", [slice |-> s], Prefix_try_from_str(s))

Call_Prefix_from_slice_unchecked ==
  /\ Fresh
  /\ \E s \in Slices :
       Call("Prefix_from_slice_unchecked", [slice |-> s],
            Ok(Prefix_from_slice_unchecked(s)))

\* prefix.to_string()
Call_Prefix_fmt ==
  /\ Returned(PrefixMakers)
  /\ \E r \in Prefix_fmt_outcomes(ret.val) : Call("Prefix_fmt", [self |-> ret.val], r)

------------------------------------------------------------------------------
\* OidStr

\* OidStr::new_v4 / new_v7_now / new_v7: the UUID is generated.
Call_OidStr_new ==
  /\ Fresh
  /\ \E p \in CorePfx, u \in Uuids :
       Call("OidStr_new", [prefix |-> p, uuid |-> u], OidStr_with_uuid(p, u))

Call_OidStr_with_uuid ==
  /\ Fresh
  /\ \E p \in PfxSegs \cup TagPfx, u \in Uuids :
       Call("OidStr_with_uuid", [prefix |-> p, uuid |-> u], OidStr_with_uuid(p, u))

\* OidStr::with_uuid(tag, uuid), tag of a type of the caller whose
\* TryFrom<Tag> for Prefix hands over the Prefix the caller holds
Call_OidStr_with_uuid_into ==
  /\ Returned(PrefixMakers)
  /\ \E u \in IntoUuids :
       Call("OidStr_with_uuid_into", [prefix |-> ret.val, uuid |-> u],
            OidStr_with_uuid_into(Ok(ret.val), u))

Call_OidStr_try_with_uuid ==
  /\ Fresh
  /\ \E p \in CtorPfx, t \in UuidTexts :
       Call("OidStr_try_with_uuid", [prefix |-> p, text |-> t],
            OidStr_try_with_uuid(p, t))

Call_OidStr_try_with_uuid_base32 ==
  /\ Fresh
  /\ \E p \in CtorPfx, t \in ValSegs :
       Call("OidStr_try_with_uuid_base32", [prefix |-> p, text |-> t],
            OidStr_try_with_uuid_base32(p, t))

Call_OidStr_prefix ==
  /\ Returned(OidStrMakers)
  /\ Call("OidStr_prefix", [self |-> ret.val], Ok(ret.val.prefix))

Call_OidStr_value ==
  /\ Returned(OidStrMakers)
  /\ Call("OidStr_value", [self |-> ret.val], Ok(OidStr_value(ret.val)))

Call_OidStr_uuid ==
  /\ Returned(OidStrMakers)
  /\ Call("OidStr_uuid", [self |-> ret.val], Ok(ret.val.uuid))

\* a == b, b being another identifier the client built with with_uuid
Call_OidStr_eq ==
  /\ Returned(OidStrMakers)
  /\ \E p \in EqPfx, u \in Uuids :
       Call("OidStr_eq", [self |-> ret.val, other |-> OidStr_with_uuid(p, u).val],
            Ok(OidStr_eq(ret.val, OidStr_with_uuid(p, u).val)))

\* oid.to_string() (and Serialize, which collects the same text)
Call_OidStr_fmt ==
  /\ Returned(OidStrMakers)
  /\ \E r \in OidStr_fmt_outcomes(ret.val) : Call("OidStr_fmt", [self |-> ret.val], r)

\* text.parse::<OidStr>() (and Deserialize), of an input text or of the text
\* just rendered
Call_OidStr_from_str ==
  \/ /\ Fresh
     /\ \E t \in Texts : Call("OidStr_from_str", [text |-> t], OidStr_from_str(t))
  \/ /\ Returned({"OidStr_fmt"})
     /\ Call("OidStr_from_str", [text |-> ret.val], OidStr_from_str(ret.val))

------------------------------------------------------------------------------
\* Oid<P>

\* Oid::new_v4 / new_v7_now / new_v7
Call_Oid_new ==
  /\ Fresh
  /\ \E P \in Markers, u \in Uuids :
       Call("Oid_new", [marker |-> P, uuid |-> u], Ok(Oid_with_uuid(u)))

Call_Oid_with_uuid ==
  /\ Fresh
  /\ \E P \in Markers, u \in Uuids :
       Call("Oid_with_uuid", [marker |-> P, uuid |-> u], Ok(Oid_with_uuid(u)))

Call_Oid_try_with_uuid ==
  /\ Fresh
  /\ \E P \in Markers, t \in UuidTexts :
       Call("Oid_try_with_uuid", [marker |-> P, text |-> t], Oid_try_with_uuid(t))

\* of an input text, or of the text value() just returned
Call_Oid_try_with_uuid_base32 ==
  \/ /\ Fresh
     /\ \E P \in Markers, t \in ValSegs :
          Call("Oid_try_with_uuid_base32", [marker |-> P, text |-> t],
               Oid_try_with_uuid_base32(t))
  \/ /\ Returned({"Oid_value"})
     /\ Call("Oid_try_with_uuid_base32", [marker |-> arg.marker, text |-> ret.val],
             Oid_try_with_uuid_base32(ret.val))

Call_Oid_prefix ==
  /\ Returned(OidMakers)
  /\ Call("Oid_prefix", [marker |-> arg.marker, self |-> ret.val],
          Oid_prefix(arg.marker))

Call_Oid_value ==
  /\ Returned(OidMakers)
  /\ Call("Oid_value", [marker |-> arg.marker, self |-> ret.val],
          Ok(Oid_value(ret.val)))

Call_Oid_uuid ==
  /\ Returned(OidMakers)
  /\ Call("Oid_uuid", [marker |-> arg.marker, self |-> ret.val], Ok(ret.val.uuid))

Call_Oid_fmt ==
  /\ Returned(OidMakers)
  /\ Call("Oid_fmt", [marker |-> arg.marker, self |-> ret.val],
          Ok(Oid_fmt(arg.marker, ret.val)))

Call_Oid_from_str ==
  \/ /\ Fresh
     /\ \E t \in Texts, i \in MarkerIds :
          Call("Oid_from_str", [marker |-> MarkerList[i], text |-> t],
               Oid_from_str(MarkerList[i], t))
  \/ /\ Returned({"Oid_fmt"})
     /\ Call("Oid_from_str", [marker |-> arg.marker, text |-> ret.val],
             Oid_from_str(arg.marker, ret.val))

Call_Oid_try_from_thing ==
  /\ Fresh
  /\ \E id \in ThingIds, tb \in PfxSegs, i \in MarkerIds :
       Call("Oid_try_from_thing", [marker |-> MarkerList[i], tb |-> tb, id |-> id],
            Oid_try_from_thing(MarkerList[i], tb, id))

------------------------------------------------------------------------------
Next ==
  \/ Call_Prefix_from_slice
  \/ Call_Prefix_try_from_slice
  \/ Call_Prefix_from_str
  \/ Call_Prefix_try_from_str
  \/ Call_Prefix_from_slice_unchecked
  \/ Call_Prefix_fmt
  \/ Call_OidStr_new
  \/ Call_OidStr_with_uuid
  \/ Call_OidStr_with_uuid_into
  \/ Call_OidStr_try_with_uuid
  \/ Call_OidStr_try_with_uuid_base32
  \/ Call_OidStr_prefix
  \/ Call_OidStr_value
  \/ Call_OidStr_uuid
  \/ Call_OidStr_eq
  \/ Call_OidStr_fmt
  \/ Call_OidStr_from_str
  \/ Call_Oid_new
  \/ Call_Oid_with_uuid
  \/ Call_Oid_try_with_uuid
  \/ Call_Oid_try_with_uuid_base32
  \/ Call_Oid_prefix
  \/ Call_Oid_value
  \/ Call_Oid_uuid
  \/ Call_Oid_fmt
  \/ Call_Oid_from_str
  \/ Call_Oid_try_from_thing

Spec == Init /\ [][Next]_vars

(***************************************************************************)
(* Properties.                                                             *)
(***************************************************************************)
\* The bytes 0-9, A-Z, a-z.
ValidBytes == (48..57) \cup (65..90) \cup (97..122)

\* The symbols 0-9, A-V.
B32Alphabet == (48..57) \cup (65..86)

AllIn(s, S) == \A i \in 1..Len(s) : s[i] \in S

\* The calls of the two identifier flavours.
TypedOps ==
  OidMakers \cup {"Oid_prefix", "Oid_value", "Oid_uuid", "Oid_fmt"}

DynamicOps ==
  OidStrMakers \cup {"OidStr_prefix", "OidStr_value", "OidStr_uuid", "OidStr_fmt"}

\* C1: dynamic round trip.  For every byte sequence p that Prefix::from_slice
\* accepts and every UUID u, OidStr::with_uuid(p, u) succeeds, and parsing
\* its rendered text succeeds with an identifier equal to it (same prefix
\* bytes, same UUID).
C1_DynamicRoundTrip ==
  (op = "OidStr_with_uuid" /\ Prefix_from_slice(arg.prefix).tag = "Ok")
    => /\ ret.tag = "Ok"
       /\ ret.val.prefix.bytes = arg.prefix
       /\ ret.val.uuid = arg.uuid
       /\ OidStr_from_str(OidStr_fmt(ret.val)) = Ok(ret.val)

\* C2: typed round trip.  For every marker P whose declared prefix is accepted
\* by Prefix validation and every UUID u, Oid::<P>::with_uuid(u) renders as
\* P::prefix() + "-" + base32hex-nopad(u), parsing that text as Oid<P>
\* succeeds with UUID u, and rendering the parsed identifier gives the text
\* again.
C2_TypedRoundTrip ==
  (op = "Oid_with_uuid" /\ Prefix_from_slice(arg.marker.prefix).tag = "Ok")
    => LET P == arg.marker
           t == Oid_fmt(P, ret.val)
           r == Oid_from_str(P, t)
       IN  /\ t = P.prefix \o <<45>> \o B32Encode(arg.uuid)
           /\ r.tag = "Ok"
           /\ r.val.uuid = arg.uuid
           /\ Oid_fmt(P, r.val) = t

\* The index of the first character at which a and b diverge: the first
\* index at which they differ, or at which one of them has ended.
FirstDivergence(a, b) ==
  CHOOSE i \in 0..Min(Len(a), Len(b)) :
    /\ i = Min(Len(a), Len(b)) \/ a[i + 1] # b[i + 1]
    /\ \A j \in 1..i : a[j] = b[j]

\* C3: in typed parsing, a prefix segment that is non-empty, differs from the
\* canonical prefix and is not loose-matched gives InvalidPrefix{valid_until}
\* with valid_until the index of the first character at which the two
\* diverge, also when one is a proper prefix of the other.
C3_TypedMismatchIsInvalidPrefix ==
  (/\ op = "Oid_from_str"
   /\ HasSeparator(arg.text)
   /\ Len(SplitOnce_pfx(arg.text)) > 0
   /\ SplitOnce_pfx(arg.text) # arg.marker.prefix
   /\ ~str_partial_eq(arg.marker, SplitOnce_pfx(arg.text)))
    => ret = Err(InvalidPrefix(
                   FirstDivergence(SplitOnce_pfx(arg.text), arg.marker.prefix)))

\* C4: no operation of either identifier flavour panics on any input when the
\* marker's declared prefix is valid; the only panic is Oid::prefix() on a
\* marker whose declared prefix is invalid.
C4_NoPanicOnData ==
  /\ (op \in DynamicOps) => ret.tag # "Panic"
  /\ (op \in TypedOps /\ AllIn(arg.marker.prefix, ValidBytes)) => ret.tag # "Panic"
  /\ (op \in TypedOps \cup DynamicOps /\ ret.tag = "Panic")
       => op = "Oid_prefix" /\ ~AllIn(arg.marker.prefix, ValidBytes)

\* The calls that decode a value segment given as their argument.
DecodeOps == {"Oid_try_with_uuid_base32", "OidStr_try_with_uuid_base32"}

\* The symbols whose two low bits are zero: 0 4 8 C G K O S.
LastSymbols == {48, 52, 56, 67, 71, 75, 79, 83}

\* s is the 26-character base32hex-nopad encoding of some 16 bytes.
IsCanonicalValue(s) ==
  /\ Len(s) = 26
  /\ AllIn(s, B32Alphabet)
  /\ s[26] \in LastSymbols

\* s is base32hex-nopad text: symbols 0-9A-V, a length that an unpadded
\* encoding can have, and zero bits after the last whole byte.
IsBase32HexNoPad(s) ==
  /\ AllIn(s, B32Alphabet)
  /\ (5 * Len(s)) % 8 < 5
  /\ Len(s) > 0 => B32Value(s[Len(s)]) % Pow2((5 * Len(s)) % 8) = 0

\* C5 as stated: every non-empty value that is not the 26-character encoding
\* of 16 bytes is rejected with Base32Decode.
C5_NonCanonicalIsBase32Decode ==
  (op \in DecodeOps /\ Len(arg.text) > 0 /\ ~IsCanonicalValue(arg.text))
    => ret.tag = "Err" /\ ret.err.kind = "Base32Decode"

\* C5, amended: every non-empty value that is not the 26-character encoding
\* of 16 bytes is rejected: with Base32Decode when it is not base32hex-nopad
\* text (a symbol outside 0-9A-V, an impossible length, nonzero trailing
\* bits), and with Uuid when it is base32hex-nopad text that decodes to fewer
\* or more than 16 bytes.
C5_NonCanonicalRejected ==
  (op \in DecodeOps /\ Len(arg.text) > 0 /\ ~IsCanonicalValue(arg.text))
    => /\ ret.tag = "Err"
       /\ ret.err.kind = IF IsBase32HexNoPad(arg.text) THEN "Uuid" ELSE "Base32Decode"

\* A well-formed base32hex text of the wrong size has been decoded.
C5_Witness ==
  /\ op \in DecodeOps
  /\ Len(arg.text) > 0
  /\ IsBase32HexNoPad(arg.text)
  /\ ~IsCanonicalValue(arg.text)
  /\ ret.tag = "Err"
  /\ ret.err.kind = "Uuid"

\* What the precedence order of C6 gives for a text: the kinds of error the
\* first failing check may return ({} when no check fails); rejected says
\* whether the flavour rejects the prefix segment.
PrecedenceKinds(text, rejected) ==
  IF ~HasSeparator(text) THEN {"MissingSeparator"}
  ELSE IF Len(SplitOnce_pfx(text)) = 0 THEN {"MissingPrefix"}
  ELSE IF rejected THEN {"InvalidPrefix"}
  ELSE IF Len(SplitOnce_val(text)) = 0 THEN {"MissingValue"}
  ELSE IF ~IsCanonicalValue(SplitOnce_val(text)) THEN {"Base32Decode", "Uuid"}
  ELSE {}

FollowsPrecedence(text, rejected) ==
  IF PrecedenceKinds(text, rejected) = {} THEN ret.tag = "Ok"
  ELSE ret.tag = "Err" /\ ret.err.kind \in PrecedenceKinds(text, rejected)

\* C6: both flavours return the error of the first failing check in the
\* order no separator (MissingSeparator), empty prefix (MissingPrefix),
\* prefix rejected (InvalidPrefix), empty value (MissingValue), value not
\* decodable (Base32Decode or Uuid).
C6_ParseErrorPrecedence ==
  /\ op = "OidStr_from_str"
       => FollowsPrecedence(arg.text,
            HasSeparator(arg.text) /\ ~AllIn(SplitOnce_pfx(arg.text), ValidBytes))
  /\ op = "Oid_from_str"
       => FollowsPrecedence(arg.text,
            /\ HasSeparator(arg.text)
            /\ SplitOnce_pfx(arg.text) # arg.marker.prefix
            /\ ~str_partial_eq(arg.marker, SplitOnce_pfx(arg.text)))

\* The calls of validated Prefix construction.
ValidatingOps ==
  {"Prefix_from_slice", "Prefix_try_from_slice", "Prefix_from_str",
   "Prefix_try_from_str"}

\* C7: validated Prefix construction succeeds exactly when every byte is in
\* 0-9, A-Z, a-z, and then holds an exact copy of the bytes; otherwise it
\* returns InvalidPrefix with the 0-based index of the first byte outside
\* these ranges.
C7_PrefixValidation ==
  op \in ValidatingOps
    => LET bad == {i \in 1..Len(arg.slice) : arg.slice[i] \notin ValidBytes}
       IN  IF bad = {} THEN ret = Ok([bytes |-> arg.slice])
           ELSE ret = Err(InvalidPrefix(
                            (CHOOSE i \in bad : \A j \in bad : i <= j) - 1))

\* A slice with two invalid bytes after a valid one has been rejected.
C7_Witness ==
  /\ op = "Prefix_from_slice"
  /\ Len(arg.slice) >= 2
  /\ arg.slice[1] \in ValidBytes
  /\ arg.slice[2] \notin ValidBytes
  /\ ret = Err(InvalidPrefix(1))

\* C8: every Prefix value the public interface returns holds only bytes
\* 0-9, A-Z, a-z, and the renderer is never given a Prefix with another byte.
C8_PrefixAlwaysValid ==
  /\ Returned(PrefixMakers) => AllIn(ret.val.bytes, ValidBytes)
  /\ op = "Prefix_fmt" => AllIn(arg.self.bytes, ValidBytes)

\* C9: value() of every identifier is 26 symbols of 0-9A-V, and
\* uuid_from_str_b32h of it is the identifier's UUID.
C9_CodecRoundTrip ==
  op \in {"OidStr_value", "Oid_value"}
    => /\ ret.tag = "Ok"
       /\ Len(ret.val) = 26
       /\ AllIn(ret.val, B32Alphabet)
       /\ uuid_from_str_b32h(ret.val) = Ok(arg.self.uuid)

\* value() has been called on a typed identifier whose UUID has nonzero
\* bits in its last, partly filled symbol, and returned 26 symbols.
C9_Witness ==
  /\ op = "Oid_value"
  /\ arg.self.uuid[16] % 8 # 0
  /\ ret.tag = "Ok"
  /\ Len(ret.val) = 26

\* The prefix segment was accepted: the outcome is that of the value segment.
PrefixAccepted ==
  \/ ret.tag = "Ok"
  \/ ret.tag = "Err" /\ ret.err.kind \in {"MissingValue", "Base32Decode", "Uuid"}

\* C10: typed parsing accepts the prefix segment iff it is non-empty and
\* equals the canonical prefix or satisfies str_partial_eq (also when
\* str_partial_eq rejects the canonical prefix); an identifier parsed through
\* a loose-matched prefix equals the one parsed from the canonical-prefix
\* text with the same value, and renders with the canonical prefix.
C10_TypedPrefixAcceptance ==
  (op = "Oid_from_str" /\ HasSeparator(arg.text))
    => LET P   == arg.marker
           pfx == SplitOnce_pfx(arg.text)
           val == SplitOnce_val(arg.text)
           c   == Oid_from_str(P, P.prefix \o <<45>> \o val)
       IN  /\ PrefixAccepted <=> (Len(pfx) > 0 /\ (pfx = P.prefix \/ pfx \in P.loose))
           /\ ret.tag = "Ok"
                => /\ c.tag = "Ok" => c.val = ret.val
                   /\ SubSeq(Oid_fmt(P, ret.val), 1, Len(P.prefix) + 1)
                        = P.prefix \o <<45>>
                   /\ SubSeq(Oid_fmt(P, ret.val), Len(P.prefix) + 2,
                             Len(Oid_fmt(P, ret.val))) = val

\* A text with a loose-matched prefix that is not the canonical one has been
\* parsed, and the canonical-prefix text parses too.
C10_Witness ==
  /\ op = "Oid_from_str"
  /\ HasSeparator(arg.text)
  /\ SplitOnce_pfx(arg.text) # arg.marker.prefix
  /\ SplitOnce_pfx(arg.text) \in arg.marker.loose
  /\ arg.marker.prefix \notin arg.marker.loose
  /\ ret.tag = "Ok"
  /\ Oid_from_str(arg.marker,
                  arg.marker.prefix \o <<45>> \o SplitOnce_val(arg.text)).tag = "Ok"

\* C11: dynamic parsing accepts any tag.  For a non-empty prefix segment of
\* bytes 0-9A-Za-z the outcome is never InvalidPrefix and is that of the value
\* segment alone (the same as under the tag EXA), and the parsed identifier
\* stores exactly the segment; when the outcome is InvalidPrefix, valid_until
\* is the index in the prefix segment of its first byte outside 0-9A-Za-z.
C11_DynamicAcceptsAnyTag ==
  (op = "OidStr_from_str" /\ HasSeparator(arg.text))
    => LET pfx == SplitOnce_pfx(arg.text)
           val == SplitOnce_val(arg.text)
           r   == OidStr_from_str(EXA \o <<45>> \o val)
           bad == {i \in 1..Len(pfx) : pfx[i] \notin ValidBytes}
       IN  /\ (Len(pfx) > 0 /\ bad = {})
                => /\ PrefixAccepted
                   /\ ret.tag = r.tag
                   /\ ret.tag = "Ok" <=> IsCanonicalValue(val)
                   /\ ret.tag = "Err" => ret = r
                   /\ ret.tag = "Ok"
                        => /\ ret.val.prefix.bytes = pfx
                           /\ ret.val.uuid = r.val.uuid
           /\ (ret.tag = "Err" /\ ret.err.kind = "InvalidPrefix")
                => /\ bad # {}
                   /\ ret.err.valid_until + 1 \in bad
                   /\ \A j \in bad : ret.err.valid_until + 1 <= j

\* A text whose tag is longer than 8 bytes and has lower-case letters has
\* been parsed into an identifier.
C11_Witness ==
  /\ op = "OidStr_from_str"
  /\ HasSeparator(arg.text)
  /\ Len(SplitOnce_pfx(arg.text)) > 8
  /\ \E i \in 1..Len(SplitOnce_pfx(arg.text)) : SplitOnce_pfx(arg.text)[i] > 96
  /\ ret.tag = "Ok"
  /\ ret.val.prefix.bytes = SplitOnce_pfx(arg.text)

\* C12: typed and dynamic parsing agree.  For a marker P whose declared
\* prefix is valid and a text whose prefix segment is P's canonical prefix,
\* parsing as Oid<P> and as OidStr both succeed with the same UUID, the
\* OidStr prefix being Oid::prefix() and the two renderings the same text,
\* or both fail with the same Error.
C12_TypedDynamicEquivalence ==
  (/\ op = "Oid_from_str"
   /\ AllIn(arg.marker.prefix, ValidBytes)
   /\ HasSeparator(arg.text)
   /\ SplitOnce_pfx(arg.text) = arg.marker.prefix)
    => LET P == arg.marker
           d == OidStr_from_str(arg.text)
       IN  /\ ret.tag \in {"Ok", "Err"}
           /\ ret.tag = d.tag
           /\ ret.tag = "Err" => ret = d
           /\ ret.tag = "Ok"
                => /\ d.val.uuid = ret.val.uuid
                   /\ Oid_prefix(P) = Ok(d.val.prefix)
                   /\ OidStr_fmt(d.val) = Oid_fmt(P, ret.val)

\* A text with the non-empty canonical prefix of a marker has been parsed as
\* Oid<P> into an identifier, and parses as OidStr too.
C12_Witness ==
  /\ op = "Oid_from_str"
  /\ Len(arg.marker.prefix) > 0
  /\ AllIn(arg.marker.prefix, ValidBytes)
  /\ HasSeparator(arg.text)
  /\ SplitOnce_pfx(arg.text) = arg.marker.prefix
  /\ ret.tag = "Ok"
  /\ OidStr_from_str(arg.text).tag = "Ok"

\* C13: equality of dynamic identifiers is structural and case-sensitive.
\* Two OidStr values are equal iff their prefix byte sequences are identical
\* and their UUIDs are identical; with prefixes "TST" and "tst" and the same
\* UUID they are unequal, and with the same prefix and different UUIDs they
\* are unequal.
C13_StructuralEquality ==
  op = "OidStr_eq"
    => LET a == arg.self
           b == arg.other
           samePrefix == /\ Len(a.prefix.bytes) = Len(b.prefix.bytes)
                         /\ \A i \in 1..Len(a.prefix.bytes) :
                              a.prefix.bytes[i] = b.prefix.bytes[i]
           sameUuid   == \A i \in 1..16 : a.uuid[i] = b.uuid[i]
       IN  /\ ret.tag = "Ok"
           /\ ret.val <=> (samePrefix /\ sameUuid)
           /\ (a.prefix.bytes = <<84, 83, 84>> /\ b.prefix.bytes = <<116, 115, 116>>)
                => ~ret.val
           /\ (samePrefix /\ ~sameUuid) => ~ret.val

\* Identifiers with prefixes "TST" and "tst" and the same UUID have been
\* compared, and were unequal.
C13_Witness ==
  /\ op = "OidStr_eq"
  /\ arg.self.prefix.bytes = <<84, 83, 84>>
  /\ arg.other.prefix.bytes = <<116, 115, 116>>
  /\ arg.self.uuid = arg.other.uuid
  /\ ret = Ok(FALSE)

\* The text has a '-' after its first '-'.
TwoSeparators(text) == Cardinality({i \in 1..Len(text) : text[i] = 45}) >= 2

\* The bytes of the text before its first '-'.
TagOf(text) ==
  SubSeq(text, 1, (CHOOSE i \in 1..Len(text) :
                     text[i] = 45 /\ \A j \in 1..(i - 1) : text[j] # 45) - 1)

\* C14: the text is split at its first '-' only.  A text with a non-empty
\* accepted prefix (valid bytes for OidStr; the canonical prefix or a
\* str_partial_eq match for Oid<P>) and a second '-' anywhere after the first
\* is rejected with Base32Decode, by both flavours.
C14_SecondSeparatorIsBase32Decode ==
  /\ (/\ op = "OidStr_from_str"
      /\ TwoSeparators(arg.text)
      /\ Len(TagOf(arg.text)) > 0
      /\ AllIn(TagOf(arg.text), ValidBytes))
       => ret.tag = "Err" /\ ret.err.kind = "Base32Decode"
  /\ (/\ op = "Oid_from_str"
      /\ TwoSeparators(arg.text)
      /\ Len(TagOf(arg.text)) > 0
      /\ (TagOf(arg.text) = arg.marker.prefix \/ TagOf(arg.text) \in arg.marker.loose))
       => ret.tag = "Err" /\ ret.err.kind = "Base32Decode"

\* A text with a valid tag and a '-' inside an otherwise complete value (27
\* bytes after the first '-') has been rejected by the dynamic parser.
C14_Witness ==
  /\ op = "OidStr_from_str"
  /\ TwoSeparators(arg.text)
  /\ Len(TagOf(arg.text)) > 0
  /\ AllIn(TagOf(arg.text), ValidBytes)
  /\ Len(arg.text) = Len(TagOf(arg.text)) + 28
  /\ arg.text[Len(arg.text)] # 45
  /\ arg.text[Len(TagOf(arg.text)) + 2] # 45
  /\ ret.tag = "Err"
  /\ ret.err.kind = "Base32Decode"

\* The input texts the dynamic parser accepts, each with the identifier it
\* parses to.
AcceptedTexts ==
  {[text |-> t, oid |-> OidStr_from_str(t).val] :
     t \in {x \in Texts : OidStr_from_str(x).tag = "Ok"}}

\* C15: canonical text form.  Rendering the identifier parsed from a text s
\* gives exactly s: the value segment of an accepted text is the 26-symbol
\* encoding of its UUID, and no other input text parses to an equal
\* identifier.
C15_ParsedTextIsCanonical ==
  (op = "OidStr_from_str" /\ ret.tag = "Ok")
    => /\ OidStr_fmt(ret.val) = arg.text
       /\ SplitOnce_val(arg.text) = B32Encode(ret.val.uuid)
       /\ Len(SplitOnce_val(arg.text)) = 26
       /\ \A a \in AcceptedTexts : OidStr_eq(a.oid, ret.val) => a.text = arg.text

\* A text with the tag "TST" has been parsed into an identifier whose UUID
\* is not nil.
C15_Witness ==
  /\ op = "OidStr_from_str"
  /\ ret.tag = "Ok"
  /\ SubSeq(arg.text, 1, 4) = <<84, 83, 84, 45>>
  /\ ret.val.uuid # [i \in 1..16 |-> 0]
  /\ OidStr_fmt(ret.val) = arg.text

\* The number of '-' in a text.
CountDashes(text) == Cardinality({i \in 1..Len(text) : text[i] = 45})

\* C16: every OidStr the public operations return holds a prefix whose bytes
\* are all in 0-9A-Za-z, although Prefix::from_slice_unchecked is public, and
\* so the rendered text of every OidStr has exactly one '-'.
C16_OidStrPrefixAlwaysValid ==
  /\ Returned(OidStrMakers) => AllIn(ret.val.prefix.bytes, ValidBytes)
  /\ op = "OidStr_fmt"
       => /\ AllIn(arg.self.prefix.bytes, ValidBytes)
          /\ ret.tag = "Ok"
          /\ CountDashes(ret.val) = 1

\* The fallible dynamic constructors.
TryCtorOps == {"OidStr_try_with_uuid", "OidStr_try_with_uuid_base32"}

\* The value argument of the constructor just called is not acceptable.
ValueInvalid ==
  IF op = "OidStr_try_with_uuid" THEN Uuid_parse_str(arg.text).tag = "Err"
  ELSE ~IsCanonicalValue(arg.text)

\* The constructors check the value before the prefix: an invalid value
\* gives the value's error whatever the prefix is, and InvalidPrefix is
\* returned exactly when the value is valid and the prefix is not.
ValueCheckedFirst ==
  /\ ValueInvalid
       => ret.tag = "Err" /\ ret.err.kind \in {"Uuid", "MissingValue", "Base32Decode"}
  /\ (ret.tag = "Err" /\ ret.err.kind = "InvalidPrefix")
       => ~ValueInvalid /\ ~AllIn(arg.prefix, ValidBytes)
  /\ (~ValueInvalid /\ ~AllIn(arg.prefix, ValidBytes))
       => ret.tag = "Err" /\ ret.err.kind = "InvalidPrefix"

\* C17 as stated: the constructors check the value first, and parsing the
\* text p + "-" + v reports InvalidPrefix first whenever p is invalid.
C17_ValueFirstParseInvalidPrefix ==
  op \in TryCtorOps
    => /\ ValueCheckedFirst
       /\ ~AllIn(arg.prefix, ValidBytes)
            => LET parsed == OidStr_from_str(arg.prefix \o <<45>> \o arg.text)
               IN  parsed.tag = "Err" /\ parsed.err.kind = "InvalidPrefix"

\* C17, amended: the constructors check the value first; parsing the text
\* p + "-" + v reports InvalidPrefix first, with the same index, when the
\* first invalid byte of p is not '-'; when it is '-', the text is split
\* there and parsing reports MissingPrefix (p starts with '-') or
\* Base32Decode (the rest of p and v form the value segment).
C17_ValueFirstParsePrefixFirst ==
  op \in TryCtorOps
    => /\ ValueCheckedFirst
       /\ ~AllIn(arg.prefix, ValidBytes)
            => LET parsed == OidStr_from_str(arg.prefix \o <<45>> \o arg.text)
                   k == CHOOSE i \in 1..Len(arg.prefix) :
                          /\ arg.prefix[i] \notin ValidBytes
                          /\ \A j \in 1..(i - 1) : arg.prefix[j] \in ValidBytes
               IN  IF arg.prefix[k] # 45 THEN parsed = Err(InvalidPrefix(k - 1))
                   ELSE IF k = 1 THEN parsed = Err(MissingPrefix)
                   ELSE parsed.tag = "Err" /\ parsed.err.kind = "Base32Decode"

\* try_with_uuid_base32 has been called with an invalid prefix without '-'
\* and an invalid value, and returned the value's error, where parsing the
\* joined text reports InvalidPrefix.
C17_Witness ==
  /\ op = "OidStr_try_with_uuid_base32"
  /\ ~AllIn(arg.prefix, ValidBytes)
  /\ \A i \in 1..Len(arg.prefix) : arg.prefix[i] # 45
  /\ Len(arg.text) > 0
  /\ ~IsCanonicalValue(arg.text)
  /\ ret.tag = "Err"
  /\ ret.err.kind = "Base32Decode"
  /\ OidStr_from_str(arg.prefix \o <<45>> \o arg.text).err.kind = "InvalidPrefix"

====
